---------------------------- MODULE Spec2Model ----------------------------
(***************************************************************************)
(* create-peachy-app: the project-initialisation pipeline of src/index.js. *)
(*                                                                         *)
(* main() is one linear async function.  Each try-block of main() is one   *)
(* action of the model; pc is the position in main().  The filesystem, the *)
(* remote template repository and the outcome of every I/O call are the    *)
(* environment.  Texts that the program transforms (the manifest, the      *)
(* layout file, the target path, the scripts summary) are modelled by      *)
(* structure and the transformations are computed as the code computes     *)
(* them.                                                                   *)
(***************************************************************************)
EXTENDS Naturals, Sequences, FiniteSets, TLC

VARIABLES
    pc,          \* position in main()
    exitCode,    \* the exit code the process ends with (1 after process.exit(1))
    argv,        \* process.argv.slice(2): a sequence of path arguments
    projectName, \* const projectName (line 48)
    targetDir,   \* const targetDir (line 49), a sequence of path segments
    fileIdx,     \* index of the for-loop over filesToRemove (line 344)
    fs,          \* what is at targetDir on disk
    fs0,         \* what was at targetDir when the process started
    remote,      \* content of the template repository that git clone copies
    env,         \* "faulty": I/O calls may fail; "reliable": they do not
    calls,       \* the filesystem calls and external commands issued so far
    out,         \* spinner results and console lines printed so far
    summary      \* let availableScripts (line 461), a sequence of tokens

vars == <<pc, exitCode, argv, projectName, targetDir, fileIdx, fs, fs0,
          remote, env, calls, out, summary>>

(***************************************************************************)
(* Bounds of the model.                                                    *)
(***************************************************************************)
\* longest manifest text, in members, that SpecManifest draws
MaxMembers == 3
\* longest layout text, in fragments, that SpecLayout draws
MaxFrags == 3

(***************************************************************************)
(* Paths: path.resolve and path.basename (lines 48-49).  A path argument   *)
(* is [abs, segs]: whether it starts with "/", and its "/"-separated       *)
(* segments.  A resolved path is the sequence of its segments from the     *)
(* root.                                                                   *)
(***************************************************************************)
Cwd == <<"home", "dev">>

RECURSIVE NormalizeSegs(_, _)
NormalizeSegs(segs, acc) ==
    IF segs = <<>> THEN acc
    ELSE LET s == Head(segs) IN
         IF s = "" \/ s = "." THEN NormalizeSegs(Tail(segs), acc)
         ELSE IF s = ".."
              THEN NormalizeSegs(Tail(segs),
                       IF acc = <<>> THEN acc ELSE SubSeq(acc, 1, Len(acc) - 1))
              ELSE NormalizeSegs(Tail(segs), Append(acc, s))

\* path.resolve(process.cwd(), providedPath); path.resolve(providedPath) is
\* the same computation, the working directory being the implicit base.
PathResolve(p) ==
    NormalizeSegs(IF p.abs THEN p.segs ELSE Cwd \o p.segs, <<>>)

\* path.basename of a resolved path
PathBasename(abs) == IF abs = <<>> THEN "" ELSE abs[Len(abs)]

Rel(segs) == [abs |-> FALSE, segs |-> segs]
Abs(segs) == [abs |-> TRUE, segs |-> segs]

(***************************************************************************)
(* JSON values and JavaScript objects (lines 89-101, 463-469).  A value is *)
(* a string, null or an object; an object is the sequence of its members   *)
(* in creation order.  A JSON text is modelled by the value it denotes     *)
(* member by member as written, so it may repeat a key.                    *)
(***************************************************************************)
Str(s)   == [kind |-> "string", str |-> s, members |-> <<>>]
Null     == [kind |-> "null", str |-> "", members |-> <<>>]
Obj(ms)  == [kind |-> "object", str |-> "", members |-> ms]
Mem(k, v) == [key |-> k, val |-> v]

HasKey(ms, k) == \E i \in 1..Len(ms) : ms[i].key = k
GetVal(ms, k) == ms[CHOOSE i \in 1..Len(ms) : ms[i].key = k].val

\* obj[k] = v : an existing property keeps its place, a new one is appended
PutMember(ms, k, v) ==
    IF HasKey(ms, k)
    THEN [i \in 1..Len(ms) |-> IF ms[i].key = k THEN Mem(k, v) ELSE ms[i]]
    ELSE Append(ms, Mem(k, v))

\* delete obj[k]
DeleteMember(ms, k) == SelectSeq(ms, LAMBDA m : m.key # k)

\* Property keys that are array indices are enumerated first, ascending.
IndexKeys == <<"0", "1", "2">>
IsIndexKey(k) == \E i \in 1..Len(IndexKeys) : IndexKeys[i] = k

RECURSIVE IndexMembers(_, _)
IndexMembers(ms, i) ==
    IF i > Len(IndexKeys) THEN <<>>
    ELSE SelectSeq(ms, LAMBDA m : m.key = IndexKeys[i]) \o IndexMembers(ms, i + 1)

\* [[OwnPropertyKeys]] order, used by JSON.stringify and Object.entries
OwnMembers(ms) ==
    IndexMembers(ms, 1) \o SelectSeq(ms, LAMBDA m : ~IsIndexKey(m.key))

\* JSON.parse of the text of a value: members are defined one by one, a
\* repeated key overwriting the earlier value.
RECURSIVE JSONparse(_)
RECURSIVE ParseMembers(_, _)
ParseMembers(raw, acc) ==
    IF raw = <<>> THEN acc
    ELSE ParseMembers(Tail(raw),
             PutMember(acc, Head(raw).key, JSONparse(Head(raw).val)))
JSONparse(text) ==
    IF text.kind = "object" THEN Obj(ParseMembers(text.members, <<>>)) ELSE text

\* JSON.stringify(value, null, 2): members in own-property order
RECURSIVE JSONstringify(_)
JSONstringify(v) ==
    IF v.kind = "object"
    THEN LET ms == OwnMembers(v.members) IN
         Obj([i \in 1..Len(ms) |-> Mem(ms[i].key, JSONstringify(ms[i].val))])
    ELSE v

\* Lines 92-99 on a parsed manifest.  Setting a property of null throws;
\* setting or deleting a property of a string does nothing (the script is
\* not in strict mode).
SetupThrows(pkgJson) == pkgJson.kind = "null"

SetupKeepsAuthor(pkgJson, name) ==
    IF pkgJson.kind # "object" THEN pkgJson
    ELSE LET m1 == PutMember(pkgJson.members, "name", Str(name))
             m2 == DeleteMember(m1, "keywords")
             m4 == PutMember(m2, "version", Str("0.0.0"))
             m5 == PutMember(m4, "description", Str(""))
         IN Obj(m5)

SetupPackageJson(pkgJson, name) ==
    IF pkgJson.kind # "object" THEN pkgJson
    ELSE LET m1 == PutMember(pkgJson.members, "name", Str(name))
             m2 == DeleteMember(m1, "keywords")
             m3 == DeleteMember(m2, "author")
             m4 == PutMember(m3, "version", Str("0.0.0"))
             m5 == PutMember(m4, "description", Str(""))
         IN Obj(m5)

\* A file that holds JSON text, holds something else, or is not there.
JsonFile(text) == [state |-> "json", json |-> text]
GarbageFile    == [state |-> "garbage", json |-> Null]
NoFile         == [state |-> "absent", json |-> Null]

(***************************************************************************)
(* The scripts summary (lines 465-472).                                    *)
(***************************************************************************)
\* `${command}` of a JSON value
Display(v) ==
    IF v.kind = "string" THEN v.str
    ELSE IF v.kind = "null" THEN "null" ELSE "[object Object]"

NoScriptsText == <<"No npm scripts available.">>
UnableText    == <<"Unable to fetch npm scripts.">>

\* lines.join('\n') over token sequences
RECURSIVE JoinLines(_)
JoinLines(lines) ==
    IF lines = <<>> THEN <<>>
    ELSE IF Len(lines) = 1 THEN lines[1]
    ELSE lines[1] \o <<"\n">> \o JoinLines(Tail(lines))

ScriptLine(m) == <<"npm run ", m.key, "  ->  ", Display(m.val)>>

\* pkgJson.scripts: undefined when pkgJson is a string or has no such key
ScriptsDefined(pkgJson) ==
    pkgJson.kind = "object" /\ HasKey(pkgJson.members, "scripts")
ScriptsOf(pkgJson) == GetVal(pkgJson.members, "scripts")

\* scripts && Object.keys(scripts).length > 0  (scripts an object or null)
ScriptsTruthyNonEmpty(pkgJson) ==
    /\ ScriptsDefined(pkgJson)
    /\ ScriptsOf(pkgJson).kind = "object"
    /\ Len(ScriptsOf(pkgJson).members) > 0

SummaryFirstOnly(pkgJson) ==
    IF ScriptsTruthyNonEmpty(pkgJson)
    THEN ScriptLine(OwnMembers(ScriptsOf(pkgJson).members)[1])
    ELSE NoScriptsText

AvailableScripts(pkgJson) ==
    IF ScriptsTruthyNonEmpty(pkgJson)
    THEN LET es == OwnMembers(ScriptsOf(pkgJson).members) IN
         JoinLines([i \in 1..Len(es) |-> ScriptLine(es[i])])
    ELSE NoScriptsText

(***************************************************************************)
(* The layout patch (lines 356-364).  A text is a sequence of characters.  *)
(***************************************************************************)
IMPORT == <<"i", "m", "p", "o", "r", "t">>
HEADER == <<"H", "e", "a", "d", "e", "r">>
FOOTER == <<"F", "o", "o", "t", "e", "r">>

\* \s of a regular expression, and the line terminators that . excludes
IsSpace(c) == c \in {" ", "\n", "\t", "\r"}
IsLineTerminator(c) == c \in {"\n", "\r"}

StartsWithAt(t, i, w) ==
    /\ i + Len(w) - 1 <= Len(t)
    /\ \A j \in 1..Len(w) : t[i + j - 1] = w[j]

\* /import\s+.*(Header|Footer)/.test(line)
ImportRe(line) ==
    \E i \in 1..Len(line) :
      /\ StartsWithAt(line, i, IMPORT)
      /\ \E j \in (i + 7)..(Len(line) + 1) :
           /\ \A s \in (i + 6)..(j - 1) : IsSpace(line[s])
           /\ \E k \in j..Len(line) :
                /\ \A d \in j..(k - 1) : ~IsLineTerminator(line[d])
                /\ StartsWithAt(line, k, HEADER) \/ StartsWithAt(line, k, FOOTER)

\* text.split('\n')
RECURSIVE SplitLines(_, _)
SplitLines(t, cur) ==
    IF t = <<>> THEN <<cur>>
    ELSE IF Head(t) = "\n" THEN <<cur>> \o SplitLines(Tail(t), <<>>)
    ELSE SplitLines(Tail(t), Append(cur, Head(t)))

\* lines.join('\n')
RECURSIVE JoinText(_)
JoinText(lines) ==
    IF lines = <<>> THEN <<>>
    ELSE IF Len(lines) = 1 THEN lines[1]
    ELSE lines[1] \o <<"\n">> \o JoinText(Tail(lines))

RECURSIVE SpaceRunEnd(_, _)
SpaceRunEnd(t, p) ==
    IF p <= Len(t) /\ IsSpace(t[p]) THEN SpaceRunEnd(t, p + 1) ELSE p

\* Length of the match of /<word\s*\/>/ that starts at position i, 0 if none
MarkerLenAt(t, i, word) ==
    IF StartsWithAt(t, i, <<"<">> \o word)
    THEN LET q == SpaceRunEnd(t, i + 1 + Len(word)) IN
         IF StartsWithAt(t, q, <<"/", ">">>) THEN q + 2 - i ELSE 0
    ELSE 0

\* text.replace(/<word\s*\/>/g, ''): leftmost matches, left to right, the
\* scan resuming after each match
RECURSIVE RemoveMarkers(_, _, _)
RemoveMarkers(t, i, word) ==
    IF i > Len(t) THEN <<>>
    ELSE LET n == MarkerLenAt(t, i, word) IN
         IF n > 0 THEN RemoveMarkers(t, i + n, word)
         ELSE <<t[i]>> \o RemoveMarkers(t, i + 1, word)

\* lines 358-364
PatchLayout(t) ==
    LET noImports == JoinText(SelectSeq(SplitLines(t, <<>>),
                                        LAMBDA line : ~ImportRe(line)))
        noHeader  == RemoveMarkers(noImports, 1, HEADER)
    IN  RemoveMarkers(noHeader, 1, FOOTER)

TextFile(t) == [present |-> TRUE, text |-> t]
NoText      == [present |-> FALSE, text |-> <<>>]

(***************************************************************************)
(* The environment: arguments, the target path on disk, the template.      *)
(***************************************************************************)
FilesToRemove == <<"CodeBlock.js", "Footer.js", "Header.js", "Peach3dModel.js">>

\* What is at the target path before the run: nothing, an empty directory,
\* a directory with entries of its own, or a regular file.
FsAt(target, foreign) ==
    [target |-> target, foreign |-> foreign, cloned |-> FALSE,
     docs |-> FALSE, blog |-> FALSE, pkg |-> NoFile, css |-> "none",
     comps |-> {}, layout |-> NoText, page |-> "none", git |-> "none",
     deps |-> FALSE]

InitialTargets ==
    {FsAt("absent", FALSE), FsAt("dir", FALSE), FsAt("dir", TRUE),
     FsAt("file", FALSE)}

\* The working tree that a successful clone of template tpl leaves.
ClonedTree(tpl) ==
    [target |-> "dir", foreign |-> FALSE, cloned |-> TRUE,
     docs |-> tpl.docs, blog |-> tpl.blog, pkg |-> tpl.pkg, css |-> "template",
     comps |-> tpl.comps, layout |-> tpl.layout, page |-> "template",
     git |-> "template", deps |-> FALSE]

Template(pkg, docs, blog, layout, comps) ==
    [pkg |-> pkg, docs |-> docs, blog |-> blog, layout |-> layout, comps |-> comps]

AllComps == {FilesToRemove[i] : i \in 1..Len(FilesToRemove)}

ScriptsA == Obj(<<Mem("start", Str("peachy dev")), Mem("build", Str("peachy build"))>>)
ScriptsB == Obj(<<Mem("build", Str("old")), Mem("1", Str("one")),
                  Mem("0", Str("zero")), Mem("build", Str("webpack"))>>)

\* The members a drawn manifest text is made of.
MemberOptions ==
    {Mem("name", Str("peachy")), Mem("description", Str("A framework")),
     Mem("keywords", Str("peach")), Mem("author", Str("sid")),
     Mem("scripts", ScriptsA), Mem("scripts", ScriptsB),
     Mem("scripts", Obj(<<>>)), Mem("main", Str("index.js"))}

BoundedManifests ==
    {JsonFile(Obj(ms)) :
        ms \in UNION {[1..n -> MemberOptions] : n \in 0..MaxMembers}}

FullManifest ==
    JsonFile(Obj(<<Mem("name", Str("peachy")), Mem("version", Str("1.4.2")),
                   Mem("description", Str("A framework")),
                   Mem("keywords", Str("peach")), Mem("scripts", ScriptsA),
                   Mem("author", Str("sid")), Mem("main", Str("index.js"))>>))

PipelineManifests ==
    {FullManifest,
     JsonFile(Obj(<<Mem("scripts", ScriptsB), Mem("private", Str("true"))>>)),
     JsonFile(Obj(<<Mem("main", Str("index.js"))>>)),
     JsonFile(Obj(<<Mem("scripts", Null)>>)),
     JsonFile(Null), JsonFile(Str("peachy")), GarbageFile, NoFile}

\* The fragments a drawn layout text is made of.
FragmentOptions ==
    {IMPORT \o <<" ">>, HEADER, FOOTER,
     <<"<">> \o HEADER \o <<"/", ">">>,
     <<"<">> \o FOOTER \o <<" ", "/", ">">>,
     <<"<", "H", "e", "a">>, <<"d", "e", "r", "/", ">">>,
     <<"<">> \o HEADER, <<"/", ">">>, <<"\n">>, <<"x">>}

RECURSIVE Concat(_)
Concat(parts) == IF parts = <<>> THEN <<>> ELSE Head(parts) \o Concat(Tail(parts))

BoundedLayouts ==
    {TextFile(Concat(fr)) :
        fr \in UNION {[1..n -> FragmentOptions] : n \in 0..MaxFrags}}

\* import Header from "Header"\n<Header />x<Footer/>\nx
SampleLayout ==
    TextFile(IMPORT \o <<" ">> \o HEADER \o <<"\n", "<">> \o HEADER
             \o <<" ", "/", ">", "x", "<">> \o FOOTER \o <<"/", ">", "\n", "x">>)

PipelineTemplates ==
    {Template(m, TRUE, TRUE, SampleLayout, AllComps) : m \in PipelineManifests}
    \cup {Template(FullManifest, FALSE, TRUE, NoText, {"Header.js", "Footer.js"})}

PipelineArgvs ==
    {<<>>, <<Rel(<<"my-app">>)>>,
     <<Abs(<<"srv", "sites", "..", "shop", "">>), Rel(<<"ignored">>)>>}

FunctionArgvs ==
    {<<Rel(<<"my-app">>)>>, <<Rel(<<".">>)>>, <<Rel(<<"..", "apps", "shop">>)>>}

InitWith(argvs, targets, templates, e) ==
    /\ pc = "args"
    /\ exitCode = 0
    /\ argv \in argvs
    /\ projectName = ""
    /\ targetDir = <<>>
    /\ fileIdx = 1
    /\ fs \in targets
    /\ fs0 = fs
    /\ remote \in templates
    /\ env = e
    /\ calls = <<>>
    /\ out = <<>>
    /\ summary = <<>>

\* Any run of the tool, every I/O call free to fail.
Init == InitWith(PipelineArgvs, InitialTargets, PipelineTemplates, "faulty")

\* Runs on a fresh target over every drawn manifest text.
InitManifest ==
    InitWith(FunctionArgvs, {FsAt("absent", FALSE)},
             {Template(m, TRUE, TRUE, SampleLayout, AllComps) :
                 m \in BoundedManifests}, "reliable")

\* Runs on a fresh target over every drawn layout text.
InitLayout ==
    InitWith({<<Rel(<<"my-app">>)>>}, {FsAt("absent", FALSE)},
             {Template(FullManifest, TRUE, TRUE, l, AllComps) :
                 l \in BoundedLayouts}, "reliable")

(***************************************************************************)
(* main(), one action per block.                                           *)
(***************************************************************************)
Terminated == pc \in {"done", "exited"}

\* a call that can throw, and whether it returned
Call(step, op, ok) == [step |-> step, op |-> op, ok |-> ok]
Line(kind, text) == [kind |-> kind, text |-> text]

\* Outcomes an I/O call that can succeed may have.
MayFail == IF env = "faulty" THEN {TRUE, FALSE} ELSE {TRUE}

ProcessExitZero(code) == pc' = "exited" /\ exitCode' = 0

\* the block that follows each block of main()
FallThrough(label) ==
    CASE label = "args" -> "check"
      [] label = "check" -> "clone"
      [] label = "clone" -> "prune"
      [] label = "pkg" -> "css"
      [] label = "git" -> "npm"
      [] OTHER -> "report"

ExitCodeSetOnly(code) == pc' = FallThrough(pc) /\ exitCode' = code

\* process.exit(code)
ProcessExit(code) == pc' = "exited" /\ exitCode' = code

Goto(label) == pc' = label /\ UNCHANGED exitCode

\* lines 39-49
ParseArgs ==
    /\ pc = "args"
    /\ IF Len(argv) < 1
       THEN /\ out' = Append(out, Line("error", "Usage: create-peachy-app <project-directory>"))
            /\ ProcessExit(1)
            /\ UNCHANGED <<projectName, targetDir>>
       ELSE /\ projectName' = PathBasename(PathResolve(argv[1]))
            /\ targetDir' = PathResolve(argv[1])
            /\ Goto("check")
            /\ UNCHANGED out
    /\ UNCHANGED <<argv, fileIdx, fs, fs0, remote, env, calls, summary>>

\* fs.access(targetDir): rejects when nothing is at the path
AccessOutcomes == IF fs.target = "absent" THEN {FALSE} ELSE MayFail

\* fs.readdir(targetDir): the number of entries, or a rejection
Listing(ok, n) == [ok |-> ok, n |-> n]
ReaddirOutcomes ==
    IF fs.target # "dir" THEN {Listing(FALSE, 0)}
    ELSE {Listing(ok, IF ok /\ (fs.foreign \/ fs.cloned) THEN 1 ELSE 0) : ok \in MayFail}

TargetRejectedWhenListed(accessOk, listing) == accessOk /\ listing.ok

\* lines 53-55: whether the check ends the run
TargetRejected(accessOk, listing) == accessOk /\ listing.ok /\ listing.n > 0

\* lines 51-61
CheckTarget ==
    /\ pc = "check"
    /\ \E accessOk \in AccessOutcomes, listing \in ReaddirOutcomes :
         /\ calls' = calls \o <<Call("check", "access", accessOk)>>
                \o (IF accessOk THEN <<Call("check", "readdir", listing.ok)>> ELSE <<>>)
         /\ IF TargetRejected(accessOk, listing)
            THEN /\ out' = Append(out, Line("error", "Error: Directory is not empty."))
                 /\ ProcessExit(1)
            ELSE /\ Goto("clone")
                 /\ UNCHANGED out
    /\ UNCHANGED <<argv, projectName, targetDir, fileIdx, fs, fs0, remote, env, summary>>

\* git clone <url> "<targetDir>": git refuses a path that is a file or a
\* directory with entries; otherwise it copies the template, or fails and
\* leaves nothing or a partial directory behind.
CloneOutcomes ==
    IF fs.target = "file" \/ (fs.target = "dir" /\ fs.foreign) THEN {"refused"}
    ELSE {"ok"} \cup (IF env = "faulty" THEN {"failed", "partial"} ELSE {})

\* lines 63-71
CloneRepository ==
    /\ pc = "clone"
    /\ \E r \in CloneOutcomes :
         /\ calls' = Append(calls, Call("clone", "git clone", r = "ok"))
         /\ fs' = IF r = "ok" THEN ClonedTree(remote)
                  ELSE IF r = "partial"
                       THEN [fs EXCEPT !.target = "dir", !.git = "partial"]
                       ELSE fs
         /\ IF r = "ok"
            THEN /\ out' = Append(out, Line("succeed", "Repository cloned."))
                 /\ Goto("prune")
            ELSE /\ out' = Append(out, Line("fail", "Project setup failed: Cloning repository failed."))
                 /\ ProcessExit(1)
    /\ UNCHANGED <<argv, projectName, targetDir, fileIdx, fs0, remote, env, summary>>

\* lines 73-83: the two removals share one try-block
SetupDirectories ==
    /\ pc = "prune"
    /\ \E docsOk \in MayFail, blogOk \in MayFail :
         /\ calls' = calls \o <<Call("prune", "rm src/app/docs", docsOk)>>
                \o (IF docsOk THEN <<Call("prune", "rm src/app/blog", blogOk)>> ELSE <<>>)
         /\ fs' = [fs EXCEPT !.docs = IF docsOk THEN FALSE ELSE @,
                             !.blog = IF docsOk /\ blogOk THEN FALSE ELSE @]
         /\ out' = Append(out, IF docsOk /\ blogOk
                               THEN Line("succeed", "Directories set up.")
                               ELSE Line("warn", "Some issues encountered during directory setup."))
    /\ Goto("pkg")
    /\ UNCHANGED <<argv, projectName, targetDir, fileIdx, fs0, remote, env, summary>>

\* What the try-block of lines 88-102 comes to.
PkgOutcomes ==
    IF fs.pkg.state = "absent" THEN {"readFailed"}
    ELSE (IF env = "faulty" THEN {"readFailed"} ELSE {})
         \cup (IF fs.pkg.state = "garbage" THEN {"parseFailed"}
               ELSE IF SetupThrows(JSONparse(fs.pkg.json)) THEN {"setupThrew"}
               ELSE {"ok"} \cup (IF env = "faulty"
                                 THEN {"writeFailed", "writeTruncated"} ELSE {}))

\* lines 85-106
SetupPackage ==
    /\ pc = "pkg"
    /\ \E r \in PkgOutcomes :
         /\ calls' = calls \o <<Call("pkg", "readFile package.json", r # "readFailed")>>
                \o (IF r # "readFailed"
                    THEN <<Call("pkg", "JSON.parse", r # "parseFailed")>> ELSE <<>>)
                \o (IF r \notin {"readFailed", "parseFailed"}
                    THEN <<Call("pkg", "set pkgJson.name", r # "setupThrew")>> ELSE <<>>)
                \o (IF r \in {"ok", "writeFailed", "writeTruncated"}
                    THEN <<Call("pkg", "writeFile package.json", r = "ok")>> ELSE <<>>)
         /\ fs' = IF r = "ok"
                  THEN [fs EXCEPT !.pkg = JsonFile(JSONstringify(
                            SetupPackageJson(JSONparse(fs.pkg.json), projectName)))]
                  ELSE IF r = "writeTruncated" THEN [fs EXCEPT !.pkg = GarbageFile]
                  ELSE fs
         /\ IF r = "ok"
            THEN /\ out' = Append(out, Line("succeed", "package.json set up."))
                 /\ Goto("css")
            ELSE /\ out' = Append(out, Line("fail", "Failed to set up package.json."))
                 /\ ProcessExit(1)
    /\ UNCHANGED <<argv, projectName, targetDir, fileIdx, fs0, remote, env, summary>>

\* lines 108-339
ReplaceCss ==
    /\ pc = "css"
    /\ \E ok \in MayFail :
         /\ fs' = [fs EXCEPT !.css = IF ok THEN "new" ELSE @]
         /\ calls' = Append(calls, Call("customize", "writeFile src/index.css", ok))
    /\ fileIdx' = 1
    /\ Goto("unlink")
    /\ UNCHANGED <<argv, projectName, targetDir, fs0, remote, env, out, summary>>

AfterUnlinkBreaks(i) == "layout"

\* where the loop of lines 344-351 goes after file number i
AfterUnlink(i) == IF i < Len(FilesToRemove) THEN "unlink" ELSE "layout"

\* lines 341-351, one iteration
RemoveComponent ==
    /\ pc = "unlink"
    /\ LET file == FilesToRemove[fileIdx] IN
       \E ok \in (IF file \in fs.comps THEN MayFail ELSE {FALSE}) :
         /\ fs' = [fs EXCEPT !.comps = IF ok THEN @ \ {file} ELSE @]
         /\ calls' = Append(calls, Call("customize", "unlink src/components/" \o file, ok))
    /\ fileIdx' = fileIdx + 1
    /\ Goto(AfterUnlink(fileIdx))
    /\ UNCHANGED <<argv, projectName, targetDir, fs0, remote, env, out, summary>>

\* lines 353-368
UpdateLayout ==
    /\ pc = "layout"
    /\ \E readOk \in (IF fs.layout.present THEN MayFail ELSE {FALSE}),
          writeOk \in MayFail :
         /\ calls' = calls \o <<Call("customize", "readFile src/app/layout.js", readOk)>>
                \o (IF readOk
                    THEN <<Call("customize", "writeFile src/app/layout.js", writeOk)>>
                    ELSE <<>>)
         /\ fs' = IF readOk /\ writeOk
                  THEN [fs EXCEPT !.layout = TextFile(PatchLayout(fs.layout.text))]
                  ELSE fs
    /\ Goto("page")
    /\ UNCHANGED <<argv, projectName, targetDir, fileIdx, fs0, remote, env, out, summary>>

\* lines 370-435
OverwritePage ==
    /\ pc = "page"
    /\ \E ok \in MayFail :
         /\ fs' = [fs EXCEPT !.page = IF ok THEN "new" ELSE @]
         /\ calls' = Append(calls, Call("customize", "writeFile src/app/page.js", ok))
    /\ out' = Append(out, Line("succeed", "Application files customized."))
    /\ Goto("git")
    /\ UNCHANGED <<argv, projectName, targetDir, fileIdx, fs0, remote, env, summary>>

GitKeepsHistory(rmOk, initOk, left) ==
    IF ~rmOk THEN left ELSE IF initOk THEN "template" ELSE "none"

\* lines 441-442: the metadata left by fs.rm(gitDir) and git init; a failed
\* removal leaves the template's metadata whole or in part
GitAfter(rmOk, initOk, left) ==
    IF ~rmOk THEN left ELSE IF initOk THEN "fresh" ELSE "none"

\* lines 437-447
SetupVersionControl ==
    /\ pc = "git"
    /\ \E rmOk \in MayFail, initOk \in MayFail,
          left \in {"template", "partial"} :
         /\ calls' = calls \o <<Call("git", "rm .git", rmOk)>>
                \o (IF rmOk THEN <<Call("git", "git init", initOk)>> ELSE <<>>)
         /\ fs' = [fs EXCEPT !.git = GitAfter(rmOk, initOk, left)]
         /\ IF rmOk /\ initOk
            THEN /\ out' = Append(out, Line("succeed", "Version control set up."))
                 /\ Goto("npm")
            ELSE /\ out' = Append(out, Line("fail", "Failed to set up version control."))
                 /\ ProcessExit(1)
    /\ UNCHANGED <<argv, projectName, targetDir, fileIdx, fs0, remote, env, summary>>

\* lines 449-457
InstallDependencies ==
    /\ pc = "npm"
    /\ \E ok \in MayFail :
         /\ fs' = [fs EXCEPT !.deps = ok]
         /\ calls' = Append(calls, Call("npm", "npm install", ok))
         /\ IF ok
            THEN /\ out' = Append(out, Line("succeed", "Dependencies installed."))
                 /\ Goto("report")
            ELSE /\ out' = Append(out, Line("fail", "Dependency installation failed."))
                 /\ ProcessExit(1)
    /\ UNCHANGED <<argv, projectName, targetDir, fileIdx, fs0, remote, env, summary>>

\* Whether the try-block of lines 463-473 throws: the file cannot be read
\* or parsed, or the parsed value is null.
ReportThrows(readOk) ==
    \/ ~readOk
    \/ fs.pkg.state # "json"
    \/ JSONparse(fs.pkg.json).kind = "null"

\* lines 459-487; main() then returns and the process ends with code 0
Finalize ==
    /\ pc = "report"
    /\ \E readOk \in (IF fs.pkg.state = "absent" THEN {FALSE} ELSE MayFail) :
         /\ calls' = Append(calls, Call("report", "readFile package.json", readOk))
         /\ IF ReportThrows(readOk)
            THEN /\ summary' = UnableText
                 /\ out' = out \o <<Line("warn", "Final setup encountered issues."),
                                    Line("log", "Project setup complete! Happy Coding!"),
                                    Line("box", "availableScripts")>>
            ELSE /\ summary' = AvailableScripts(JSONparse(fs.pkg.json))
                 /\ out' = out \o <<Line("succeed", "Setup finalized."),
                                    Line("log", "Project setup complete! Happy Coding!"),
                                    Line("box", "availableScripts")>>
    /\ pc' = "done"
    /\ UNCHANGED <<exitCode, argv, projectName, targetDir, fileIdx, fs, fs0, remote, env>>

Next ==
    \/ ParseArgs
    \/ CheckTarget
    \/ CloneRepository
    \/ SetupDirectories
    \/ SetupPackage
    \/ ReplaceCss
    \/ RemoveComponent
    \/ UpdateLayout
    \/ OverwritePage
    \/ SetupVersionControl
    \/ InstallDependencies
    \/ Finalize

Spec == Init /\ [][Next]_vars
SpecManifest == InitManifest /\ [][Next]_vars
SpecLayout == InitLayout /\ [][Next]_vars

(***************************************************************************)
(* Vocabulary of the properties.                                           *)
(***************************************************************************)
CallsOf(step, op) == SelectSeq(calls, LAMBDA c : c.step = step /\ c.op = op)
Called(step, op) == Len(CallsOf(step, op)) > 0
Failed(step, op) == \E i \in 1..Len(calls) :
                      calls[i].step = step /\ calls[i].op = op /\ ~calls[i].ok
Succeeded(step, op) == \E i \in 1..Len(calls) :
                         calls[i].step = step /\ calls[i].op = op /\ calls[i].ok

\* The target path held a directory with entries when the run started.
TargetNonEmpty == fs0.target = "dir" /\ fs0.foreign
TargetFresh == fs0.target = "absent" \/ (fs0.target = "dir" /\ ~fs0.foreign)

StepOrder == <<"check", "clone", "prune", "pkg", "customize", "git", "npm", "report">>
StepIndex(step) == CHOOSE i \in 1..Len(StepOrder) : StepOrder[i] = step

(***************************************************************************)
(* C1.  A run whose target path exists and has at least one entry ends     *)
(* with a non-zero exit code and changes nothing on disk: git clone is     *)
(* never invoked and the target stays as it was, whatever the access and   *)
(* listing calls of the check return.                                      *)
(***************************************************************************)
C1_NonEmptyTargetUntouched ==
    TargetNonEmpty =>
        /\ fs = fs0
        /\ ~Called("clone", "git clone")
        /\ (Terminated => exitCode # 0)

FatalStepFailed ==
    \E i \in 1..Len(calls) :
       calls[i].step \in {"clone", "pkg", "git", "npm"} /\ ~calls[i].ok

SoftStepFailed ==
    \E i \in 1..Len(calls) :
       calls[i].step \in {"prune", "customize", "report"} /\ ~calls[i].ok

C3_ExitCodeZeroIffNoFatalFailure ==
    Terminated =>
        /\ exitCode \in {0, 1}
        /\ (exitCode # 0) <=> (argv = <<>> \/ TargetNonEmpty \/ FatalStepFailed)

C3_Witness ==
    /\ pc = "done"
    /\ exitCode = 0
    /\ SoftStepFailed
    /\ Failed("prune", "rm src/app/docs")
    /\ Failed("customize", "writeFile src/index.css")
    /\ Failed("customize", "writeFile src/app/page.js")
    /\ Failed("report", "readFile package.json")

(***************************************************************************)
(* C4.  A run that starts on an absent or empty target and ends with exit  *)
(* code 0 leaves neither src/app/docs nor src/app/blog in the target,      *)
(* whatever the removal calls returned and whatever the template held.     *)
(***************************************************************************)
C4_PrunedDirectoriesAbsentOnSuccess ==
    (TargetFresh /\ pc = "done" /\ exitCode = 0) => (~fs.docs /\ ~fs.blog)

(***************************************************************************)
(* C7.  Once the version-control reset has succeeded the target has fresh  *)
(* metadata: the cloned .git was removed before git init ran, no template  *)
(* history is left, and no later step brings it back.  A failed removal or *)
(* a failed git init ends the run with a non-zero exit code and npm        *)
(* install is never invoked.                                               *)
(***************************************************************************)
C7_VersionControlReset ==
    /\ Succeeded("git", "git init") =>
          /\ fs.git = "fresh"
          /\ \E i, j \in 1..Len(calls) :
                /\ i < j
                /\ calls[i] = Call("git", "rm .git", TRUE)
                /\ calls[j] = Call("git", "git init", TRUE)
    /\ (Failed("git", "rm .git") \/ Failed("git", "git init")) =>
          /\ pc = "exited"
          /\ exitCode # 0
          /\ ~Called("npm", "npm install")
          /\ fs.git # "fresh"

C7_Witness ==
    /\ pc = "done"
    /\ fs.git = "fresh"
    /\ fs.deps
    /\ Succeeded("git", "git init")

(***************************************************************************)
(* C8.  The run is fail-stop and ordered: calls are issued in the order of *)
(* the steps (check, clone, prune, manifest, customization, reset,         *)
(* install, report), none twice; once the process has exited nothing more  *)
(* happens, so the target stays as the failing step left it; the process   *)
(* exits early only with code 1; a run without argument issues no call and *)
(* leaves the target untouched.                                            *)
(***************************************************************************)
CallsInStepOrder ==
    \A i, j \in 1..Len(calls) :
       i < j => /\ StepIndex(calls[i].step) <= StepIndex(calls[j].step)
                /\ ~(calls[i].step = calls[j].step /\ calls[i].op = calls[j].op)

CustomizeOps ==
    {"writeFile src/index.css", "readFile src/app/layout.js",
     "writeFile src/app/page.js"}
    \cup {"unlink src/components/" \o FilesToRemove[i] : i \in 1..Len(FilesToRemove)}

CustomizeLabels == {"css", "unlink", "layout", "page"}
PastCustomize == pc \in {"git", "npm", "report", "done"} \/ Called("git", "rm .git")

C9_CustomizationIsolated ==
    /\ [](PastCustomize =>
            /\ \A op \in CustomizeOps : Len(CallsOf("customize", op)) = 1
            /\ Len(SelectSeq(out, LAMBDA l :
                   l = Line("succeed", "Application files customized."))) = 1)
    /\ [](pc \in CustomizeLabels => ENABLED Next)
    /\ [][(pc \in CustomizeLabels) =>
            (pc' \in CustomizeLabels \cup {"git"} /\ exitCode' = 0)]_vars

C9_Witness ==
    /\ pc = "git"
    /\ Failed("customize", "writeFile src/index.css")
    /\ Failed("customize", "unlink src/components/CodeBlock.js")
    /\ Failed("customize", "readFile src/app/layout.js")
    /\ Succeeded("customize", "unlink src/components/Peach3dModel.js")
    /\ Succeeded("customize", "writeFile src/app/page.js")

(***************************************************************************)
(* C2.  Once the manifest rewrite has succeeded the written manifest has   *)
(* name = basename of the resolved target path, version "0.0.0",           *)
(* description "", no keywords and no author; every other key of the       *)
(* template's manifest is there with its value, and no key is added beyond *)
(* name, version and description; the scripts that the report reads are    *)
(* the scripts of the template's manifest.                                 *)
(***************************************************************************)
KeyCount(ms, k) == Len(SelectSeq(ms, LAMBDA m : m.key = k))
KeysOf(ms) == {ms[i].key : i \in 1..Len(ms)}
SameValue(a, b) == JSONstringify(a) = JSONstringify(b)
SameScripts(a, b) ==
    /\ ScriptsDefined(a) <=> ScriptsDefined(b)
    /\ ScriptsDefined(a) => SameValue(ScriptsOf(a), ScriptsOf(b))

C2_ManifestRewritten ==
    (Succeeded("pkg", "writeFile package.json") /\ remote.pkg.json.kind = "object") =>
        LET template == JSONparse(remote.pkg.json)
            written  == fs.pkg.json.members
        IN  /\ fs.pkg.state = "json"
            /\ KeyCount(written, "name") = 1
            /\ GetVal(written, "name") = Str(targetDir[Len(targetDir)])
            /\ KeyCount(written, "version") = 1
            /\ GetVal(written, "version") = Str("0.0.0")
            /\ KeyCount(written, "description") = 1
            /\ GetVal(written, "description") = Str("")
            /\ ~HasKey(written, "keywords")
            /\ ~HasKey(written, "author")
            /\ \A k \in KeysOf(template.members)
                        \ {"name", "version", "description", "keywords", "author"} :
                  /\ KeyCount(written, k) = 1
                  /\ SameValue(GetVal(written, k), GetVal(template.members, k))
            /\ KeysOf(written) \subseteq
                  KeysOf(template.members) \cup {"name", "version", "description"}
            /\ SameScripts(JSONparse(fs.pkg.json), template)
            /\ Succeeded("report", "readFile package.json") =>
                  summary = AvailableScripts(template)

C2_Witness ==
    /\ pc = "done"
    /\ projectName = "dev"
    /\ HasKey(remote.pkg.json.members, "author")
    /\ HasKey(remote.pkg.json.members, "main")
    /\ HasKey(remote.pkg.json.members, "scripts")
    /\ GetVal(fs.pkg.json.members, "scripts") # ScriptsOf(JSONparse(remote.pkg.json))
    /\ Len(summary) > 4

(***************************************************************************)
(* C5.  After the layout patch the written text has no line that imports   *)
(* Header or Footer and no <Header/> or <Footer/> marker (blanks allowed   *)
(* before "/>"), and every line of the original that neither imports       *)
(* Header or Footer nor holds a marker is kept verbatim, in order.         *)
(***************************************************************************)
HasMarker(t) ==
    \E i \in 1..Len(t) : MarkerLenAt(t, i, HEADER) > 0 \/ MarkerLenAt(t, i, FOOTER) > 0

RECURSIVE IsSubsequence(_, _)
IsSubsequence(a, b) ==
    IF a = <<>> THEN TRUE
    ELSE IF b = <<>> THEN FALSE
    ELSE IF Head(a) = Head(b) THEN IsSubsequence(Tail(a), Tail(b))
    ELSE IsSubsequence(a, Tail(b))

UnrelatedLines(t) ==
    SelectSeq(SplitLines(t, <<>>), LAMBDA line : ~ImportRe(line) /\ ~HasMarker(line))

C5_LayoutPatched ==
    Succeeded("customize", "writeFile src/app/layout.js") =>
        LET before == remote.layout.text
            after  == fs.layout.text
        IN  /\ \A i \in 1..Len(SplitLines(after, <<>>)) :
                  ~ImportRe(SplitLines(after, <<>>)[i])
            /\ ~HasMarker(after)
            /\ IsSubsequence(UnrelatedLines(before), SplitLines(after, <<>>))

(***************************************************************************)
(* C6.  A run that reaches the report ends with exit code 0 and prints a   *)
(* summary fixed by the manifest as re-read: one line                      *)
(* "npm run <script>  ->  <command>" per entry of scripts, in the          *)
(* mapping's order, when scripts is present and non-empty; the "No npm     *)
(* scripts available." text when it is absent or empty; the "Unable to     *)
(* fetch npm scripts." text when the re-read or the parse fails.           *)
(***************************************************************************)
C6_SummaryFromManifest ==
    pc = "done" =>
        /\ exitCode = 0
        /\ out[Len(out)] = Line("box", "availableScripts")
        /\ IF Failed("report", "readFile package.json") \/ fs.pkg.state # "json"
           THEN summary = UnableText
           ELSE LET pkgJson == JSONparse(fs.pkg.json)
                    lines   == SplitLines(summary, <<>>)
                IN  IF /\ pkgJson.kind = "object"
                       /\ HasKey(pkgJson.members, "scripts")
                       /\ GetVal(pkgJson.members, "scripts").members # <<>>
                    THEN LET es == OwnMembers(GetVal(pkgJson.members, "scripts").members)
                         IN  /\ Len(lines) = Len(es)
                             /\ \A i \in 1..Len(es) :
                                   lines[i] = <<"npm run ", es[i].key, "  ->  ",
                                                es[i].val.str>>
                    ELSE summary = NoScriptsText

C6_Witness ==
    /\ pc = "done"
    /\ Succeeded("report", "readFile package.json")
    /\ Len(SplitLines(summary, <<>>)) = 3
    /\ summary[2] = "0"

=============================================================================
